---------------------------- MODULE Spec2Model ----------------------------
(***************************************************************************)
(* AsyncQueue (src/src/core/index.ts): a sequencer of asynchronous tasks   *)
(* with three task lists (waitList, excuteList, finishList), a queue-level *)
(* status and lifecycle notifications.                                     *)
(*                                                                         *)
(* Task objects are numbered in creation order (the index into `tasks`);   *)
(* the lists hold object numbers, so the same object can sit in several    *)
(* places, as a JavaScript reference can.  Every promise chain built by    *)
(* next() (excute(task).then(..).catch(..).finally(..)) is an entry of     *)
(* `chains`; its callbacks are separate steps, as they are separate jobs   *)
(* of the JavaScript job queue.  A handler of the class runs to completion *)
(* in one step, the calls it makes included.                               *)
(***************************************************************************)
EXTENDS Integers, Sequences, FiniteSets, TLC

\* ------------------------------------------------------------------ bounds
\* Task objects ever created by push.
MaxTasks == 2
\* Task objects pushed before an uninterrupted run.
MaxRunTasks == 3
\* Entries of the three lists taken together that retry may build up.
MaxEntries == 2
\* pause() continuations pending at the same time.
MaxPauses == 1

\* The ids a caller uses.
Ids == 1..MaxRunTasks

\* Set objects the emitter creates, wrappers once() creates and unsubscribe
\* functions a caller keeps, in one run of the hub.
MaxSets == 2
MaxOnce == 1
MaxUnsubscribes == 2
\* Calls of one once() handler that are counted.
MaxCalls == 2

\* The channels and the handler functions a subscriber uses.
Channels == {"a", "b"}
Fns == {"f", "g"}

\* --------------------------------------------------------------- constants
EVENT_TASK_START == "EVENT_TASK_START"
EVENT_TASK_SUCCESS == "EVENT_TASK_SUCCESS"
EVENT_TASK_FAILURE == "EVENT_TASK_FAILURE"
EVENT_QUEUE_START == "EVENT_QUEUE_START"
EVENT_QUEUE_PAUSE == "EVENT_QUEUE_PAUSE"
EVENT_QUEUE_FINISH == "EVENT_QUEUE_FINISH"

STATUS_WAITING == "STATUS_WAITING"
STATUS_PEDDING == "STATUS_PEDDING"
STATUS_SUCCESS == "STATUS_SUCCESS"
STATUS_FAILURE == "STATUS_FAILURE"

STATUS_QUEUE_WAITING == "STATUS_QUEUE_WAITING"
STATUS_QUEUE_RUNNING == "STATUS_QUEUE_RUNNING"
STATUS_QUEUE_BEFORE_PAUSE == "STATUS_QUEUE_BEFORE_PAUSE"
STATUS_QUEUE_PAUSE == "STATUS_QUEUE_PAUSE"
STATUS_QUEUE_FINISH == "STATUS_QUEUE_FINISH"

TaskStatus == {STATUS_WAITING, STATUS_PEDDING, STATUS_SUCCESS, STATUS_FAILURE}
QueueStatus == {STATUS_QUEUE_WAITING, STATUS_QUEUE_RUNNING,
                STATUS_QUEUE_BEFORE_PAUSE, STATUS_QUEUE_PAUSE,
                STATUS_QUEUE_FINISH}

\* ------------------------------------------------------------------- state
VARIABLES
  options,     \* [immediate, removeAfterFinish, continueWhenError]
  status,      \* queue-level status
  tasks,       \* task objects: <<[id, status, excutePromise]>>
  waitList,    \* object numbers, head first
  excuteList,
  finishList,
  chains,      \* promise chains whose callbacks have not all run, oldest first
  pauses,      \* pause() continuations: the sets of chains each waits for
  faulty,      \* the ids whose task body throws when called, before any promise
  listening,   \* whether a recording handler is subscribed to every channel
  received,    \* what that handler has been delivered, in order
  eventMap,    \* Emitter: channel -> number of its Set of handlers, 0 if none
  handlerSets, \* Emitter: the Set objects ever created, in insertion order each
  unsubscribes,\* the functions on() returned that a caller still holds
  onceWrappers \* the wrappers once() created, with the calls of their handler

queueVars == <<options, status, tasks, waitList, excuteList, finishList,
               chains, pauses, faulty, listening, received>>

hubVars == <<eventMap, handlerSets, unsubscribes, onceWrappers>>

vars == <<queueVars, hubVars>>

\* ----------------------------------------------------------------- helpers
Range(s) == {s[i] : i \in 1..Len(s)}

IndexOf(s, x) ==
  IF x \in Range(s) THEN CHOOSE i \in 1..Len(s) : s[i] = x /\ \A j \in 1..(i-1) : s[j] # x
  ELSE 0

RemoveAt(s, i) == SubSeq(s, 1, i-1) \o SubSeq(s, i+1, Len(s))

IsPrefix(s, t) == Len(s) <= Len(t) /\ SubSeq(t, 1, Len(s)) = s

\* The object's fields as the handlers see them: `this`, the notifications
\* published so far by the running handler, and the chain whose callback is
\* running (0 when a caller's operation runs).
This ==
  [status |-> status, tasks |-> tasks, waitList |-> waitList,
   excuteList |-> excuteList, finishList |-> finishList,
   chains |-> chains, pauses |-> pauses,
   published |-> <<>>, writes |-> <<>>, running |-> 0, rejected |-> FALSE,
   existTask |-> 0, thrown |-> FALSE]

\* Emitter.emit as the queue uses it: the payload carries the task and live
\* references to the lists; the record keeps what they hold at publish time.
emit(s, eventName, task) ==
  [s EXCEPT !.published = Append(@,
     [name |-> eventName,
      payload |-> task,
      taskStatus |-> IF task = 0 THEN "NONE" ELSE s.tasks[task].status,
      queueStatus |-> s.status,
      waitQueue |-> s.waitList,
      excuteQueue |-> s.excuteList,
      pending |-> {t \in DOMAIN s.tasks : s.tasks[t].status = STATUS_PEDDING},
      finishQueue |-> s.finishList])]

\* this.status = value, and a note of the write for the claims.
setStatus(s, value) ==
  [s EXCEPT !.status = value,
            !.writes = Append(@, [task |-> 0, from |-> s.status, to |-> value])]

\* task.status = value, and a note of the write for the claims.
setTaskStatus(s, task, value) ==
  [s EXCEPT !.tasks[task].status = value,
            !.writes = Append(@, [task |-> task, from |-> s.tasks[task].status,
                                  to |-> value])]

isRunning(s) == s.status = STATUS_QUEUE_RUNNING
isPause(s) == s.status = STATUS_QUEUE_PAUSE
isBeforePause(s) == s.status = STATUS_QUEUE_BEFORE_PAUSE

\* First task with this id in a list, 0 for undefined.
FindIn(s, list, id) ==
  LET hits == {i \in 1..Len(list) : s.tasks[list[i]].id = id}
  IN IF hits = {} THEN 0
     ELSE list[CHOOSE i \in hits : \A j \in hits : i <= j]

\* Mutant of findTaskById: the finished list is not searched.
findTaskById_skipFinish(s, id) ==
  IF FindIn(s, s.waitList, id) # 0 THEN FindIn(s, s.waitList, id)
  ELSE FindIn(s, s.excuteList, id)

findTaskById(s, id) ==
  IF FindIn(s, s.waitList, id) # 0 THEN FindIn(s, s.waitList, id)
  ELSE IF FindIn(s, s.excuteList, id) # 0 THEN FindIn(s, s.excuteList, id)
  ELSE FindIn(s, s.finishList, id)

isExist(s, id) == findTaskById(s, id) # 0

\* The chains whose then or catch callback is running or has run and whose
\* finally callback has not: their finally callbacks are queued within two
\* microtask turns, ahead of the finally callback of any chain begun now.
Unfinished(s) ==
  {d \in DOMAIN s.chains : d = s.running \/ s.chains[d].stage # "pending"}

\* Mutant of next: pop() for shift(), the newest waiting task starts first.
next_pop(s) ==
  IF isBeforePause(s) THEN s
  ELSE IF s.waitList # <<>> THEN
    LET task == s.waitList[Len(s.waitList)]
        s1 == [s EXCEPT !.waitList = SubSeq(@, 1, Len(@) - 1),
                        !.excuteList = Append(@, task)]
        s2 == emit(s1, EVENT_TASK_START, task)
        s3 == setTaskStatus(s2, task, STATUS_PEDDING)
    IN IF s.tasks[task].id \in faulty
       THEN [s3 EXCEPT !.thrown = TRUE]
       ELSE [s3 EXCEPT
               !.tasks[task].excutePromise = Len(s.chains) + 1,
               !.chains = Append(@, [task |-> task, stage |-> "pending",
                                     caught |-> FALSE,
                                     after |-> Unfinished(s)])]
  ELSE emit(setStatus(s, STATUS_QUEUE_FINISH), EVENT_QUEUE_FINISH, 0)

\* next(): start the head of the waiting list, or finish the queue.
next(s) ==
  IF isBeforePause(s) THEN s
  ELSE IF s.waitList # <<>> THEN
    LET task == Head(s.waitList)
        s1 == [s EXCEPT !.waitList = Tail(@), !.excuteList = Append(@, task)]
        s2 == emit(s1, EVENT_TASK_START, task)
        s3 == setTaskStatus(s2, task, STATUS_PEDDING)
    IN IF s.tasks[task].id \in faulty
       THEN [s3 EXCEPT !.thrown = TRUE]
       ELSE [s3 EXCEPT
               !.tasks[task].excutePromise = Len(s.chains) + 1,
               !.chains = Append(@, [task |-> task, stage |-> "pending",
                                     caught |-> FALSE,
                                     after |-> Unfinished(s)])]
  ELSE emit(setStatus(s, STATUS_QUEUE_FINISH), EVENT_QUEUE_FINISH, 0)

exec(s) ==
  IF isRunning(s) THEN s
  ELSE next(emit(setStatus(s, STATUS_QUEUE_RUNNING), EVENT_QUEUE_START, 0))

push(s, id) ==
  LET existTask == findTaskById(s, id)
  IN IF existTask # 0
     THEN [s EXCEPT !.rejected = TRUE, !.existTask = existTask]
     ELSE LET task == Len(s.tasks) + 1
              s1 == [s EXCEPT
                       !.tasks = Append(@, [id |-> id, status |-> STATUS_WAITING,
                                            excutePromise |-> 0]),
                       !.waitList = Append(@, task)]
          IN IF options.immediate THEN exec(s1) ELSE s1


\* findIndex((x) => x.id === task.id): the first entry with the task's id.
removeFromFinishList(s, task) ==
  LET ids == [i \in 1..Len(s.finishList) |-> s.tasks[s.finishList[i]].id]
      index == IndexOf(ids, s.tasks[task].id)
  IN IF index > 0 THEN [s EXCEPT !.finishList = RemoveAt(@, index)] ELSE s

retry(s, task) ==
  exec([removeFromFinishList(s, task) EXCEPT !.waitList = Append(@, task)])

\* failureTasks.forEach((task) => this.retry(task))
RECURSIVE retryEach(_, _)
retryEach(s, failureTasks) ==
  IF failureTasks = <<>> \/ s.thrown THEN s
  ELSE retryEach(retry(s, Head(failureTasks)), Tail(failureTasks))

retryAll(s) ==
  LET isFailure(task) == s.tasks[task].status = STATUS_FAILURE
      isSuccess(task) == s.tasks[task].status = STATUS_SUCCESS
      failureTasks == SelectSeq(s.finishList, isFailure)
      successTasks == SelectSeq(s.finishList, isSuccess)
      r == retryEach(s, failureTasks)
  IN IF r.thrown THEN r ELSE [r EXCEPT !.finishList = successTasks]

\* The promises pause() hands to Promise.all: task.excutePromise of every
\* task of the in-flight list; a settled or missing promise holds nothing up.
ExcutePromises(s) ==
  {s.tasks[s.excuteList[i]].excutePromise : i \in 1..Len(s.excuteList)} \ {0}

pause(s) ==
  IF ~isRunning(s) THEN s
  ELSE [setStatus(s, STATUS_QUEUE_BEFORE_PAUSE) EXCEPT
                 !.pauses = Append(@, ExcutePromises(s))]

\* The finally callback of pause()'s Promise.all, for the i-th pending pause.
pauseSettled(s, i) ==
  LET s1 == [s EXCEPT !.pauses = RemoveAt(@, i)]
  IN IF Len(s1.waitList) = 0
     THEN emit(setStatus(s1, STATUS_QUEUE_FINISH), EVENT_QUEUE_FINISH, 0)
     ELSE emit(setStatus(s1, STATUS_QUEUE_PAUSE), EVENT_QUEUE_PAUSE, 0)

\* Mutant of resume: the pause check is missing.
resume_unguarded(s) == exec(s)

resume(s) ==
  IF ~isPause(s) THEN s ELSE exec(s)

\* Mutant of reset: the finished tasks are put in front of the waiting ones.
reset_prepend(s) ==
  IF isRunning(s) THEN [s EXCEPT !.rejected = TRUE]
  ELSE LET merged == s.finishList \o s.waitList
       IN [s EXCEPT
             !.waitList = merged,
             !.finishList = <<>>,
             !.tasks = [t \in DOMAIN s.tasks |->
                          IF t \in Range(merged)
                          THEN [s.tasks[t] EXCEPT !.status = STATUS_WAITING]
                          ELSE s.tasks[t]]]

\* Mutant of reset: the running check is missing.
reset_unguarded(s) ==
  LET merged == s.waitList \o s.finishList
  IN [s EXCEPT
        !.waitList = merged,
        !.finishList = <<>>,
        !.tasks = [t \in DOMAIN s.tasks |->
                     IF t \in Range(merged)
                     THEN [s.tasks[t] EXCEPT !.status = STATUS_WAITING]
                     ELSE s.tasks[t]]]

reset(s) ==
  IF isRunning(s) THEN [s EXCEPT !.rejected = TRUE]
  ELSE LET merged == s.waitList \o s.finishList
       IN [s EXCEPT
             !.waitList = merged,
             !.finishList = <<>>,
             !.tasks = [t \in DOMAIN s.tasks |->
                          IF t \in Range(merged)
                          THEN [s.tasks[t] EXCEPT !.status = STATUS_WAITING]
                          ELSE s.tasks[t]],
             !.writes = @ \o [i \in 1..Len(merged) |->
                                [task |-> merged[i],
                                 from |-> s.tasks[merged[i]].status,
                                 to |-> STATUS_WAITING]]]

\* The chains whose finally callback is queued ahead of chain c's when c's
\* then or catch callback runs: those already settled, a finally callback
\* being one turn after a catch callback and two after a then callback.  A
\* chain settled by its then callback and one settled later by its catch
\* callback can finish in either order.
Ahead(s, c, caught) ==
  {d \in DOMAIN s.chains \ {c} :
     /\ s.chains[d].stage # "pending"
     /\ caught => s.chains[d].caught}

\* Mutant of thenCallback: a success does not advance the queue.
thenCallback_noNext(s, c) ==
  LET task == s.chains[c].task
      s1 == emit(setTaskStatus(s, task, STATUS_SUCCESS),
                 EVENT_TASK_SUCCESS, task)
  IN [s1 EXCEPT !.chains[c].stage = "settled",
                !.chains[c].after = @ \cup Ahead(s, c, FALSE)]

\* .then((response) => ...) of chain c, built by next() for its task.
thenCallback(s, c) ==
  LET task == s.chains[c].task
      s1 == emit(setTaskStatus(s, task, STATUS_SUCCESS),
                 EVENT_TASK_SUCCESS, task)
      s2 == IF ~options.continueWhenError THEN next(s1) ELSE s1
  IN [s2 EXCEPT !.chains[c].stage = IF s2.thrown THEN "thrown" ELSE "settled",
                !.chains[c].after = @ \cup Ahead(s, c, FALSE)]

\* Mutant of catchCallback: the failure advances the queue as a success does.
catchCallback_next(s, c) ==
  LET task == s.chains[c].task
      s1 == emit(setTaskStatus(s, task, STATUS_FAILURE),
                 EVENT_TASK_FAILURE, task)
      s2 == IF ~options.continueWhenError THEN next(s1) ELSE s1
  IN [s2 EXCEPT !.chains[c].stage = "settled",
                !.chains[c].caught = TRUE,
                !.chains[c].after = @ \cup Ahead(s, c, TRUE)]

\* .catch((error) => ...)
catchCallback(s, c) ==
  LET task == s.chains[c].task
      s1 == emit(setTaskStatus(s, task, STATUS_FAILURE),
                 EVENT_TASK_FAILURE, task)
  IN IF s.chains[c].stage = "thrown"
     THEN [s1 EXCEPT !.chains[c].stage = "settled"]
     ELSE [s1 EXCEPT !.chains[c].stage = "settled",
                     !.chains[c].caught = TRUE,
                     !.chains[c].after = @ \cup Ahead(s, c, TRUE)]

\* Chain c is over and its promise settled: nothing waits for it any longer.
\* The chains left keep their order and are numbered 1, 2, ... again.
Renumber(c, x) == IF x = c THEN 0 ELSE IF x > c THEN x - 1 ELSE x

Settle(s, c) ==
  [s EXCEPT
     !.chains = [i \in 1..(Len(s.chains) - 1) |->
                   LET ch == IF i < c THEN s.chains[i] ELSE s.chains[i + 1]
                   IN [ch EXCEPT !.after = {Renumber(c, x) : x \in @ \ {c}}]],
     !.pauses = [i \in DOMAIN s.pauses |->
                   {Renumber(c, x) : x \in s.pauses[i] \ {c}}],
     !.tasks = [t \in DOMAIN s.tasks |->
                  [s.tasks[t] EXCEPT !.excutePromise = Renumber(c, @)]]]

\* Mutant of finallyCallback: next() is not called.
finallyCallback_noNext(s, c) ==
  LET task == s.chains[c].task
      s1 == IF ~options.removeAfterFinish
            THEN [s EXCEPT !.finishList = Append(@, task)] ELSE s
      s3 == [s1 EXCEPT !.excuteList = IF @ = <<>> THEN @ ELSE Tail(@)]
  IN Settle(s3, c)

\* .finally(() => ...)
finallyCallback(s, c) ==
  LET task == s.chains[c].task
      s1 == IF ~options.removeAfterFinish
            THEN [s EXCEPT !.finishList = Append(@, task)] ELSE s
      s2 == IF options.continueWhenError THEN next(s1) ELSE s1
      s3 == IF s2.thrown THEN s2
            ELSE [s2 EXCEPT !.excuteList = IF @ = <<>> THEN @ ELSE Tail(@)]
  IN Settle(s3, c)

\* ----------------------------------------------------------------- actions
\* The handler has returned: its writes, what it published and, with a
\* handler subscribed, what was delivered.
Commit(s) ==
  /\ status' = s.status
  /\ tasks' = s.tasks
  /\ waitList' = s.waitList
  /\ excuteList' = s.excuteList
  /\ finishList' = s.finishList
  /\ chains' = s.chains
  /\ pauses' = s.pauses
  /\ received' = IF listening THEN received \o s.published ELSE received
  /\ UNCHANGED <<options, faulty, listening>>
  /\ UNCHANGED hubVars

Entries == Len(waitList) + Len(excuteList) + Len(finishList)

\* A caller names its tasks 1, 2, ... in the order it first uses the names.
UsedIds == {tasks[t].id : t \in DOMAIN tasks}

PushUpTo(id, n) ==
  /\ id <= Cardinality(UsedIds) + 1
  /\ isExist(This, id) \/ Len(tasks) < n
  /\ Commit(push(This, id))

Push(id) == PushUpTo(id, MaxTasks)

Exec == Commit(exec(This))

Pause ==
  /\ ~isRunning(This) \/ Len(pauses) < MaxPauses
  /\ Commit(pause(This))

Resume == Commit(resume(This))

\* A caller retries a task that has settled.
Retry(task) ==
  /\ tasks[task].status \in {STATUS_SUCCESS, STATUS_FAILURE}
  /\ task \in Range(finishList) \/ Entries < MaxEntries
  /\ Commit(retry(This, task))

RetryAll == Commit(retryAll(This))

Reset == Commit(reset(This))

\* The task body resolves and the then callback runs.  A body may settle at
\* any time, so the callback is not ordered against the callbacks of other
\* chains: every order the job queue can produce is among those allowed.
TaskThen(c) ==
  /\ chains[c].stage = "pending"
  /\ Commit(thenCallback([This EXCEPT !.running = c], c))

\* The task body rejects, or the then callback has thrown, and the catch
\* callback runs.
TaskCatch(c) ==
  /\ chains[c].stage \in {"pending", "thrown"}
  /\ Commit(catchCallback([This EXCEPT !.running = c], c))

\* The finally callback runs: after the chain's then or catch callback, and
\* after the finally callbacks of the chains that were unfinished when this
\* chain was begun.
TaskFinally(c) ==
  /\ chains[c].stage = "settled"
  /\ chains[c].after = {}
  /\ Commit(finallyCallback([This EXCEPT !.running = c], c))

PauseSettled(i) ==
  /\ pauses[i] = {}
  /\ Commit(pauseSettled(This, i))

Options == [immediate : BOOLEAN, removeAfterFinish : BOOLEAN,
            continueWhenError : BOOLEAN]

\* private options = { immediate: false, removeAfterFinish: false, ... }
DefaultOptions ==
  [immediate |-> FALSE, removeAfterFinish |-> FALSE, continueWhenError |-> FALSE]

\* Partial<AsyncQueueOptions>: any of the keys, each with a value.
UserOptions == UNION {[keys -> BOOLEAN] : keys \in SUBSET DOMAIN DefaultOptions}

\* Object.assign(target, source)
Assign(target, source) ==
  [k \in DOMAIN target |-> IF k \in DOMAIN source THEN source[k] ELSE target[k]]

\* The argument of a construction without options: {}.
NoOptions == [k \in {} |-> FALSE]

Constructed ==
  /\ \E userOptions \in UserOptions :
       options = Assign(DefaultOptions, userOptions)
  /\ options \in Options
  /\ status = STATUS_QUEUE_WAITING
  /\ tasks = <<>>
  /\ waitList = <<>>
  /\ excuteList = <<>>
  /\ finishList = <<>>
  /\ chains = <<>>
  /\ pauses = <<>>
  /\ received = <<>>
  /\ eventMap = [eventName \in Channels |-> 0]
  /\ handlerSets = <<>>
  /\ unsubscribes = <<>>
  /\ onceWrappers = <<>>

Init == Constructed /\ faulty = {} /\ listening = FALSE

Next ==
  \/ \E id \in Ids : Push(id)
  \/ Exec
  \/ Pause
  \/ Resume
  \/ \E task \in DOMAIN tasks : Retry(task)
  \/ RetryAll
  \/ Reset
  \/ \E c \in DOMAIN chains : TaskThen(c)
  \/ \E c \in DOMAIN chains : TaskCatch(c)
  \/ \E c \in DOMAIN chains : TaskFinally(c)
  \/ \E i \in DOMAIN pauses : PauseSettled(i)

Spec == Init /\ [][Next]_vars


\* A run nobody interferes with: tasks are pushed, exec() is called once, and
\* from then on only the task bodies settle.  A recording handler listens.
InitRun == Constructed /\ faulty = {} /\ listening = TRUE

RunPush(id) == status = STATUS_QUEUE_WAITING /\ PushUpTo(id, MaxRunTasks)

RunExec == status = STATUS_QUEUE_WAITING /\ Exec

NextRun ==
  \/ \E id \in Ids : RunPush(id)
  \/ RunExec
  \/ \E c \in DOMAIN chains : TaskThen(c)
  \/ \E c \in DOMAIN chains : TaskCatch(c)
  \/ \E c \in DOMAIN chains : TaskFinally(c)

SpecRun == InitRun /\ [][NextRun]_vars

\* Such a run in which the bodies of some of the tasks throw when called.
InitThrow == Constructed /\ faulty \in SUBSET Ids /\ listening = TRUE

SpecThrow == InitThrow /\ [][NextRun]_vars

\* The run has halted on a failed task: nothing is in flight or pending.
Halted ==
  /\ ~options.continueWhenError
  /\ status = STATUS_QUEUE_RUNNING
  /\ chains = <<>>
  /\ pauses = <<>>

\* A failed task re-appended by retry and not started since.
Retried == {t \in Range(waitList) : tasks[t].status = STATUS_FAILURE}

\* Such a run, and once the queue has halted one retry of a failed task.
RunRetry(task) ==
  /\ Halted
  /\ ~options.removeAfterFinish
  /\ task \in Range(finishList)
  /\ tasks[task].status = STATUS_FAILURE
  /\ Retried = {}
  /\ Retry(task)

NextRetry ==
  \/ NextRun
  \/ \E task \in DOMAIN tasks : RunRetry(task)

SpecRetry == InitRun /\ [][NextRetry]_vars

\* The same, with every callback and call that can run eventually running.
SpecRetryLive == SpecRetry /\ WF_vars(NextRetry)

\* A run left alone in which every task body settles and every callback the
\* job queue holds is run.
SpecRunLive ==
  /\ SpecRun
  /\ WF_vars(\E c \in DOMAIN chains : TaskThen(c) \/ TaskCatch(c))
  /\ WF_vars(\E c \in DOMAIN chains : TaskFinally(c))

\* ----------------------------------------------------------------- Emitter
\* The hub on its own: subscribers call on, once, off, clearEvent and emit
\* and keep the functions on() returns.  A handler is [fn, once]: the
\* function fn itself when once = 0, the once-th wrapper of once() around fn
\* otherwise.  A Set of handlers is a sequence without repetition, in
\* insertion order, and has an identity: its number in handlerSets.
NoHandler == [fn |-> "", once |-> 0]

Handlers == [fn : Fns, once : 0..MaxOnce]

Hub ==
  [eventMap |-> eventMap, handlerSets |-> handlerSets,
   unsubscribes |-> unsubscribes, onceWrappers |-> onceWrappers,
   invoked |-> <<>>, propagated |-> FALSE]

SetAdd(handlers, handler) ==
  IF handler \in Range(handlers) THEN handlers ELSE Append(handlers, handler)

SetDelete(handlers, handler) ==
  LET Other(h) == h # handler IN SelectSeq(handlers, Other)

\* The function on() returns, closed over eventName, the Set and the handler.
unsubscribe(e, u) ==
  LET e1 == [e EXCEPT !.handlerSets[u.handlers] = SetDelete(@, u.handler)]
  IN IF Len(e1.handlerSets[u.handlers]) = 0
     THEN [e1 EXCEPT !.eventMap[u.eventName] = 0]
     ELSE e1

Emitter_on(e, eventName, handler) ==
  LET e1 == IF e.eventMap[eventName] = 0
            THEN [e EXCEPT !.handlerSets = Append(@, <<>>),
                           !.eventMap[eventName] = Len(e.handlerSets) + 1]
            ELSE e
      handlers == e1.eventMap[eventName]
  IN [e1 EXCEPT !.handlerSets[handlers] = SetAdd(@, handler),
                !.unsubscribes = Append(@, [eventName |-> eventName,
                                            handlers |-> handlers,
                                            handler |-> handler])]

Emitter_off(e, eventName, handler) ==
  IF e.eventMap[eventName] = 0 THEN e
  ELSE LET handlers == e.eventMap[eventName]
       IN IF handler # NoHandler
          THEN LET e1 == [e EXCEPT !.handlerSets[handlers] = SetDelete(@, handler)]
               IN IF Len(e1.handlerSets[handlers]) = 0
                  THEN [e1 EXCEPT !.eventMap[eventName] = 0]
                  ELSE e1
          ELSE [e EXCEPT !.eventMap[eventName] = 0]

\* once() drops the function its on() returns.
Emitter_once(e, eventName, fn) ==
  LET onceWrapper == [fn |-> fn, once |-> Len(e.onceWrappers) + 1]
      e1 == [e EXCEPT !.onceWrappers =
                        Append(@, [eventName |-> eventName, calls |-> 0])]
  IN [Emitter_on(e1, eventName, onceWrapper) EXCEPT !.unsubscribes = e.unsubscribes]

\* One handler(payload) of emit's loop; throwing are the functions that throw
\* when called in this emission.  A wrapper whose function throws never
\* reaches its off().
Invoke(e, handler, throwing) ==
  LET e1 == [e EXCEPT !.invoked = Append(@, handler)]
      e2 == IF handler.once = 0 THEN e1
            ELSE [e1 EXCEPT !.onceWrappers[handler.once].calls = @ + 1]
  IN IF handler.fn \in throwing THEN [e2 EXCEPT !.propagated = TRUE]
     ELSE IF handler.once = 0 THEN e2
     ELSE Emitter_off(e2, e2.onceWrappers[handler.once].eventName, handler)

\* handlers.forEach without the try: the first exception ends the loop.
RECURSIVE forEach_noTry(_, _, _)
forEach_noTry(e, handlers, throwing) ==
  IF handlers = <<>> THEN e
  ELSE LET e1 == Invoke(e, Head(handlers), throwing)
       IN IF e1.propagated THEN e1
          ELSE forEach_noTry(e1, Tail(handlers), throwing)

\* handlers.forEach with try/catch around each call.  The handlers of the
\* model remove at most themselves, so the loop over the live Set visits the
\* handlers the Set had when the loop began.
RECURSIVE forEach(_, _, _)
forEach(e, handlers, throwing) ==
  IF handlers = <<>> THEN e
  ELSE LET e1 == [Invoke(e, Head(handlers), throwing) EXCEPT !.propagated = FALSE]
       IN forEach(e1, Tail(handlers), throwing)

Emitter_emit(e, eventName, throwing) ==
  IF e.eventMap[eventName] = 0 THEN e
  ELSE forEach(e, e.handlerSets[e.eventMap[eventName]], throwing)

clearEvent(e, eventName) == [e EXCEPT !.eventMap[eventName] = 0]

CommitHub(e) ==
  /\ eventMap' = e.eventMap
  /\ handlerSets' = e.handlerSets
  /\ unsubscribes' = e.unsubscribes
  /\ onceWrappers' = e.onceWrappers
  /\ UNCHANGED queueVars

\* The handlers subscribed to a channel, in subscription order.
Subscribed(e, eventName) ==
  IF e.eventMap[eventName] = 0 THEN <<>>
  ELSE e.handlerSets[e.eventMap[eventName]]

\* on() needs a new Set when the channel has none.
Room(eventName) == eventMap[eventName] # 0 \/ Len(handlerSets) < MaxSets

On(eventName, fn, keep) ==
  /\ Room(eventName)
  /\ keep => Len(unsubscribes) < MaxUnsubscribes
  /\ LET e == Emitter_on(Hub, eventName, [fn |-> fn, once |-> 0])
     IN CommitHub(IF keep THEN e ELSE [e EXCEPT !.unsubscribes = unsubscribes])

Once(eventName, fn) ==
  /\ Room(eventName)
  /\ Len(onceWrappers) < MaxOnce
  /\ CommitHub(Emitter_once(Hub, eventName, fn))

Off(eventName, handler) == CommitHub(Emitter_off(Hub, eventName, handler))

ClearEvent(eventName) == CommitHub(clearEvent(Hub, eventName))

Emit(eventName, throwing) ==
  LET e == Emitter_emit(Hub, eventName, throwing)
  IN /\ \A n \in 1..Len(e.onceWrappers) : e.onceWrappers[n].calls <= MaxCalls
     /\ CommitHub(e)

Unsubscribe(i) == CommitHub(unsubscribe(Hub, unsubscribes[i]))

InitHub == Init /\ options = DefaultOptions

NextHub ==
  \/ \E eventName \in Channels, fn \in Fns, keep \in BOOLEAN : On(eventName, fn, keep)
  \/ \E eventName \in Channels, fn \in Fns : Once(eventName, fn)
  \/ \E eventName \in Channels, handler \in Handlers \cup {NoHandler} :
       Off(eventName, handler)
  \/ \E eventName \in Channels : ClearEvent(eventName)
  \/ \E eventName \in Channels, throwing \in SUBSET Fns : Emit(eventName, throwing)
  \/ \E i \in 1..Len(unsubscribes) : Unsubscribe(i)

SpecHub == InitHub /\ [][NextHub]_vars

\* ------------------------------------------------------------------ claims
\* What each handler that can run in the current state would leave behind.
Outcomes ==
  {push(This, id) : id \in Ids}
    \cup {exec(This), pause(This), resume(This), retryAll(This), reset(This)}
    \cup {retry(This, t) : t \in DOMAIN tasks}
    \cup {thenCallback([This EXCEPT !.running = c], c) :
            c \in {d \in DOMAIN chains : chains[d].stage = "pending"}}
    \cup {catchCallback([This EXCEPT !.running = c], c) :
            c \in {d \in DOMAIN chains : chains[d].stage \in {"pending", "thrown"}}}
    \cup {finallyCallback([This EXCEPT !.running = c], c) :
            c \in {d \in DOMAIN chains : chains[d].stage = "settled"}}
    \cup {pauseSettled(This, i) : i \in {j \in DOMAIN pauses : pauses[j] = {}}}

Named(events, name) ==
  LET Is(e) == e.name = name IN SelectSeq(events, Is)

Payloads(events) == [i \in 1..Len(events) |-> events[i].payload]

\* The tasks given a TASK_START among the events, in order.
Starts(events) == Payloads(Named(events, EVENT_TASK_START))

Unchanged(r) ==
  /\ r.status = status
  /\ r.tasks = tasks
  /\ r.waitList = waitList
  /\ r.excuteList = excuteList
  /\ r.finishList = finishList
  /\ r.chains = chains
  /\ r.pauses = pauses
  /\ r.published = <<>>

Pending == {t \in DOMAIN tasks : tasks[t].status = STATUS_PEDDING}

Tracked == waitList \o excuteList \o finishList

TrackedIds == {tasks[Tracked[i]].id : i \in 1..Len(Tracked)}

\* C1: in every reachable state at most one task has status STATUS_PEDDING.
C1_SingleInFlight == Cardinality(Pending) <= 1

\* C2: whichever handler runs, the tasks it starts are taken from the head of
\* the waiting list in order and whatever it adds goes behind the tasks
\* already waiting, so TASK_START follows the order of appending.
C2_FifoStart ==
  \A r \in Outcomes : IsPrefix(waitList, Starts(r.published) \o r.waitList)

\* Two tasks wait and a handler starts one of them.
C2_Witness ==
  /\ Len(waitList) >= 2
  /\ waitList[1] # waitList[2]
  /\ \E r \in Outcomes : Starts(r.published) = <<waitList[1]>>

\* C3: the in-flight list holds at most one entry in every reachable state.
C3_OneInFlightEntry == Len(excuteList) <= 1

\* C4: no task id occurs twice in the three lists taken together.
C4_IdTrackedOnce ==
  \A i, j \in 1..Len(Tracked) :
    i # j => tasks[Tracked[i]].id # tasks[Tracked[j]].id

\* C5: a push of an id present in one of the three lists is rejected, hands
\* the rejection callback the task that holds the id, changes no list, no
\* task and not the queue status, and publishes nothing.
C5_DedupRejects ==
  \A id \in TrackedIds :
    LET r == push(This, id)
    IN /\ r.rejected
       /\ \E i \in 1..Len(Tracked) : Tracked[i] = r.existTask
       /\ tasks[r.existTask].id = id
       /\ Unchanged(r)

\* With immediate set, a push of an id held only by a finished task is rejected.
C5_Witness ==
  /\ options.immediate
  /\ \E t \in Range(finishList) :
       /\ t \notin Range(waitList) \cup Range(excuteList)
       /\ push(This, tasks[t].id).rejected

\* C6: in a run left alone after exec() with continueWhenError off, once a
\* TASK_FAILURE has been published no TASK_START and no QUEUE_FINISH follows
\* it, the waiting list is the one the failure notification carried, its
\* tasks are all WAITING and the queue status is RUNNING.
C6_HaltOnFailure ==
  ~options.continueWhenError =>
    \A i \in 1..Len(received) :
      received[i].name = EVENT_TASK_FAILURE =>
        /\ status = STATUS_QUEUE_RUNNING
        /\ waitList = received[i].waitQueue
        /\ \A t \in Range(waitList) : tasks[t].status = STATUS_WAITING
        /\ \A j \in (i + 1)..Len(received) :
             received[j].name \notin {EVENT_TASK_START, EVENT_QUEUE_FINISH}

\* A task has failed with tasks still waiting and every callback has run.
C6_Witness ==
  /\ ~options.continueWhenError
  /\ \E i \in 1..Len(received) : received[i].name = EVENT_TASK_FAILURE
  /\ waitList # <<>>
  /\ chains = <<>>

\* C7: after retry(task) on the failed task of a halted run the task waits at
\* the tail of the waiting list and, with nothing else invoked, a TASK_START
\* is eventually published.
C7_RetryEndsStall ==
  \A n \in 0..(2 * MaxRunTasks) :
    (Retried # {} /\ Len(Starts(received)) = n) ~> (Len(Starts(received)) > n)

\* The positions at which a notification of one of the names about the task
\* was delivered.
Delivered(names, task) ==
  {i \in 1..Len(received) :
     received[i].name \in names /\ received[i].payload = task}

Quiet == chains = <<>> /\ status # STATUS_QUEUE_WAITING

\* C8: in a run left alone after exec() with continueWhenError on, the tasks
\* are started in the order pushed and none twice; a settled task has status
\* SUCCESS or FAILURE as its one outcome notification says; and when every
\* callback has run the queue status is FINISH, every task was started and
\* has settled, and QUEUE_FINISH was published once, as the last notification
\* after the last task's outcome.
C8_ContinueOnFailure ==
  options.continueWhenError =>
    /\ IsPrefix(Starts(received), [t \in 1..Len(tasks) |-> t])
    /\ \A t \in DOMAIN tasks :
         LET ok == Delivered({EVENT_TASK_SUCCESS}, t)
             ko == Delivered({EVENT_TASK_FAILURE}, t)
         IN /\ Cardinality(ok \cup ko) <= 1
            /\ ok # {} <=> tasks[t].status = STATUS_SUCCESS
            /\ ko # {} <=> tasks[t].status = STATUS_FAILURE
    /\ Quiet =>
         /\ status = STATUS_QUEUE_FINISH
         /\ Starts(received) = [t \in 1..Len(tasks) |-> t]
         /\ \A t \in DOMAIN tasks :
              tasks[t].status \in {STATUS_SUCCESS, STATUS_FAILURE}
         /\ Len(Named(received, EVENT_QUEUE_FINISH)) = 1
         /\ received[Len(received)].name = EVENT_QUEUE_FINISH
    /\ ~Quiet => Named(received, EVENT_QUEUE_FINISH) = <<>>

\* Three tasks ran to the end, the second failed and the third succeeded.
C8_Witness ==
  /\ options.continueWhenError
  /\ Quiet
  /\ Len(tasks) = 3
  /\ tasks[2].status = STATUS_FAILURE
  /\ tasks[3].status = STATUS_SUCCESS

\* C9: while an accepted pause() waits for the tasks that were in flight, no
\* task is in flight that it does not wait for (none was started since), and
\* when its continuation sets the status to PAUSE or FINISH no task is
\* PENDING.
C9_PauseBoundary ==
  \A i \in DOMAIN pauses :
    /\ pauses[i] # {} =>
         \A c \in DOMAIN chains :
           chains[c].stage = "pending" => c \in pauses[i]
    /\ pauses[i] = {} =>
         LET r == pauseSettled(This, i)
         IN /\ r.status = IF waitList = <<>> THEN STATUS_QUEUE_FINISH
                                             ELSE STATUS_QUEUE_PAUSE
            /\ \A t \in DOMAIN r.tasks : r.tasks[t].status # STATUS_PEDDING

Finished(taskStatus) ==
  LET Is(t) == tasks[t].status = taskStatus IN SelectSeq(finishList, Is)

\* C10: after retryAll() no task that was finished with status FAILURE is in
\* the finished list, those tasks have been appended in their finished-list
\* order behind the tasks that were waiting (a task the call starts leaves
\* from the head), and the finished list holds exactly the tasks that were
\* finished with status SUCCESS, in the same order and still SUCCESS.
C10_RetryAll ==
  LET r == retryAll(This)
  IN /\ \A t \in Range(Finished(STATUS_FAILURE)) : t \notin Range(r.finishList)
     /\ waitList \o Finished(STATUS_FAILURE) = Starts(r.published) \o r.waitList
     /\ r.finishList = Finished(STATUS_SUCCESS)
     /\ \A t \in Range(r.finishList) : r.tasks[t].status = STATUS_SUCCESS

C12_InvalidReset ==
  LET r == reset(This)
  IN /\ r.rejected <=> status = STATUS_QUEUE_RUNNING
     /\ r.rejected => Unchanged(r)

\* A reset is rejected in a state an accepted reset would change.
C12_Witness ==
  /\ reset(This).rejected
  /\ finishList # <<>>
  /\ \E t \in Range(waitList) : tasks[t].status # STATUS_WAITING

\* C13: exec() while the queue status is RUNNING, pause() while it is not
\* RUNNING and resume() while it is not PAUSE change no list, no task and
\* not the queue status, and publish nothing.
C13_GuardedNoOps ==
  /\ status = STATUS_QUEUE_RUNNING => Unchanged(exec(This))
  /\ status # STATUS_QUEUE_RUNNING => Unchanged(pause(This))
  /\ status # STATUS_QUEUE_PAUSE => Unchanged(resume(This))

\* The queue is RUNNING with a task waiting and none in flight, where an
\* unguarded exec() or resume() would start the task.
C13_Witness ==
  /\ status = STATUS_QUEUE_RUNNING
  /\ waitList # <<>>
  /\ excuteList = <<>>
  /\ Unchanged(exec(This))
  /\ Unchanged(resume(This))

\* No task is in flight, no callback is left to run and no pause is requested.
Idle ==
  /\ excuteList = <<>>
  /\ chains = <<>>
  /\ pauses = <<>>
  /\ status \notin {STATUS_QUEUE_BEFORE_PAUSE, STATUS_QUEUE_PAUSE}

\* C14: with immediate set, a push accepted while the queue is idle starts a
\* task without exec() being called; with immediate not set, an accepted push
\* appends the new task to the waiting list and does nothing else.
C14_ImmediateMode ==
  \A id \in Ids :
    LET r == push(This, id)
    IN ~r.rejected =>
         /\ options.immediate /\ Idle => Starts(r.published) # <<>>
         /\ ~options.immediate =>
              /\ r.waitList = Append(waitList, Len(tasks) + 1)
              /\ r.tasks = Append(tasks, [id |-> id, status |-> STATUS_WAITING,
                                          excutePromise |-> 0])
              /\ Unchanged([r EXCEPT !.waitList = waitList, !.tasks = tasks])

\* The tasks that have settled, have left the in-flight list and have not
\* been re-queued since, and whose id has not been submitted again.
Done ==
  {t \in DOMAIN tasks :
     /\ tasks[t].status \in {STATUS_SUCCESS, STATUS_FAILURE}
     /\ t \notin Range(excuteList) \cup Range(waitList)
     /\ \A u \in DOMAIN tasks : u > t => tasks[u].id # tasks[t].id}

\* C15: a task that has settled and left the in-flight list is, with
\* removeAfterFinish off, in the finished list and a push of its id is
\* rejected; with removeAfterFinish on it is in none of the three lists and
\* a push of its id is accepted. With removeAfterFinish on the finished list
\* is always empty.
C15_RetainOrDiscard ==
  /\ options.removeAfterFinish => finishList = <<>>
  /\ \A t \in Done :
       IF options.removeAfterFinish
       THEN t \notin Range(Tracked) /\ ~push(This, tasks[t].id).rejected
       ELSE t \in Range(finishList) /\ push(This, tasks[t].id).rejected

\* C16: a queue constructed without options starts nothing on push, keeps no
\* settled task in the finished list and accepts its id again, and starts no
\* task from the callbacks of a failed one.
C16_Defaults ==
  options = Assign(DefaultOptions, NoOptions) =>
    /\ \A id \in Ids : Starts(push(This, id).published) = <<>>
    /\ \A t \in Done :
         t \notin Range(finishList) /\ ~push(This, tasks[t].id).rejected
    /\ \A r \in Outcomes : \A i \in 1..Len(r.published) :
         r.published[i].name = EVENT_TASK_FAILURE =>
           \A j \in (i + 1)..Len(r.published) :
             r.published[j].name # EVENT_TASK_START

\* The status writes a handler makes to the queue (task = 0) or to a task,
\* as the steps from the value before the handler ran to the value after.
Steps(r, task) ==
  LET IsOf(w) == w.task = task
      ws == SelectSeq(r.writes, IsOf)
  IN {<<ws[i].from, ws[i].to>> : i \in 1..Len(ws)}

Changes(r, task) == {e \in Steps(r, task) : e[1] # e[2]}

\* C17: whichever handler runs, every change it makes to the queue status
\* is along one of the edges WAITING->RUNNING, RUNNING->BEFORE_PAUSE,
\* RUNNING->FINISH, BEFORE_PAUSE->PAUSE, BEFORE_PAUSE->FINISH,
\* PAUSE->RUNNING, or from FINISH back to WAITING.
C17_QueueEdges ==
  \A r \in Outcomes :
    Changes(r, 0) \subseteq
      {<<STATUS_QUEUE_WAITING, STATUS_QUEUE_RUNNING>>,
       <<STATUS_QUEUE_RUNNING, STATUS_QUEUE_BEFORE_PAUSE>>,
       <<STATUS_QUEUE_RUNNING, STATUS_QUEUE_FINISH>>,
       <<STATUS_QUEUE_BEFORE_PAUSE, STATUS_QUEUE_PAUSE>>,
       <<STATUS_QUEUE_BEFORE_PAUSE, STATUS_QUEUE_FINISH>>,
       <<STATUS_QUEUE_PAUSE, STATUS_QUEUE_RUNNING>>,
       <<STATUS_QUEUE_FINISH, STATUS_QUEUE_WAITING>>}

\* C18: whichever handler runs, every change it makes to a task's status is
\* along WAITING->PENDING, PENDING->SUCCESS, PENDING->FAILURE,
\* SUCCESS->WAITING or FAILURE->WAITING, and every task in the waiting list
\* has status WAITING.
C18_TaskEdges ==
  /\ \A r \in Outcomes : \A t \in DOMAIN r.tasks :
       Changes(r, t) \subseteq
         {<<STATUS_WAITING, STATUS_PEDDING>>,
          <<STATUS_PEDDING, STATUS_SUCCESS>>,
          <<STATUS_PEDDING, STATUS_FAILURE>>,
          <<STATUS_SUCCESS, STATUS_WAITING>>,
          <<STATUS_FAILURE, STATUS_WAITING>>}
  /\ \A t \in Range(waitList) : tasks[t].status = STATUS_WAITING

\* The names of the notifications about the task, in the order delivered.
Story(task) ==
  LET About(e) ==
        /\ e.payload = task
        /\ e.name \in {EVENT_TASK_START, EVENT_TASK_SUCCESS, EVENT_TASK_FAILURE}
      es == SelectSeq(received, About)
  IN [i \in 1..Len(es) |-> es[i].name]

\* C19: the notifications about a task are TASK_START, one of TASK_SUCCESS
\* and TASK_FAILURE, TASK_START, one outcome, and so on: no outcome without
\* a start before it and no two outcomes for one start, also in runs where
\* the body of a task throws when next() calls it.
C19_TaskEventOrder ==
  \A t \in DOMAIN tasks :
    \A i \in 1..Len(Story(t)) :
      IF i % 2 = 1 THEN Story(t)[i] = EVENT_TASK_START
      ELSE Story(t)[i] \in {EVENT_TASK_SUCCESS, EVENT_TASK_FAILURE}

\* How often a handler changed the queue status to the value.
Arrivals(r, value) ==
  LET Is(w) == w.task = 0 /\ w.to = value /\ w.from # value
  IN Len(SelectSeq(r.writes, Is))

\* C20: whichever handler runs, it publishes QUEUE_START, QUEUE_PAUSE and
\* QUEUE_FINISH as often as it changes the queue status to RUNNING, PAUSE
\* and FINISH, and each at a moment the queue has that status; QUEUE_FINISH
\* is published at no moment a task is PENDING.
C20_QueueEventsOncePerChange ==
  \A r \in Outcomes :
    /\ Len(Named(r.published, EVENT_QUEUE_START))
         = Arrivals(r, STATUS_QUEUE_RUNNING)
    /\ Len(Named(r.published, EVENT_QUEUE_PAUSE))
         = Arrivals(r, STATUS_QUEUE_PAUSE)
    /\ Len(Named(r.published, EVENT_QUEUE_FINISH))
         = Arrivals(r, STATUS_QUEUE_FINISH)
    /\ \A i \in 1..Len(r.published) :
         LET e == r.published[i]
         IN /\ e.name = EVENT_QUEUE_START => e.queueStatus = STATUS_QUEUE_RUNNING
            /\ e.name = EVENT_QUEUE_PAUSE => e.queueStatus = STATUS_QUEUE_PAUSE
            /\ e.name = EVENT_QUEUE_FINISH =>
                 e.queueStatus = STATUS_QUEUE_FINISH /\ e.pending = {}

\* C21: emit on a channel calls the handlers subscribed to the channel at
\* that moment, each once and in subscription order, whichever of them throw,
\* and no exception of a handler reaches the caller of emit.
C21_HubPublish ==
  \A eventName \in Channels, throwing \in SUBSET Fns :
    LET r == Emitter_emit(Hub, eventName, throwing)
    IN /\ r.invoked = Subscribed(Hub, eventName)
       /\ ~r.propagated

\* After an emission that reached a once() handler, a channel has a handler
\* behind one that throws, and emit reaches it.
C21_Witness ==
  /\ \E n \in 1..Len(onceWrappers) : onceWrappers[n].calls > 0
  /\ \E eventName \in Channels :
       /\ Len(Subscribed(Hub, eventName)) >= 2
       /\ LET first == Subscribed(Hub, eventName)[1]
              r == Emitter_emit(Hub, eventName, {first.fn})
          IN /\ Len(r.invoked) >= 2
             /\ r.invoked[2].fn # first.fn

\* C22: the handler given to once() is called at most once in all, also when
\* it throws the first time it is called.
C22_SubscribeOnce ==
  \A n \in 1..Len(onceWrappers) : onceWrappers[n].calls <= 1

\* C23: calling a function on() returned, at any moment and however often,
\* leaves every handler other than its own subscribed where it was, in the
\* same order.
C23_UnsubscribeCapability ==
  \A i \in 1..Len(unsubscribes) :
    LET u == unsubscribes[i]
        r == unsubscribe(Hub, u)
        Other(h) == h # u.handler
    IN \A eventName \in Channels :
         SelectSeq(Subscribed(r, eventName), Other)
           = SelectSeq(Subscribed(Hub, eventName), Other)

\* The callbacks in which the code advances the queue after a success: the
\* then callback with continueWhenError off, the finally callback of a task
\* that was not caught with it on.
SuccessSteps ==
  IF options.continueWhenError
  THEN {finallyCallback([This EXCEPT !.running = c], c) :
          c \in {d \in DOMAIN chains :
                   chains[d].stage = "settled" /\ ~chains[d].caught}}
  ELSE {thenCallback([This EXCEPT !.running = c], c) :
          c \in {d \in DOMAIN chains : chains[d].stage = "pending"}}

AnyFailed == \E t \in DOMAIN tasks : tasks[t].status = STATUS_FAILURE

RunComplete ==
  /\ status = STATUS_QUEUE_FINISH
  /\ waitList = <<>>
  /\ excuteList = <<>>
  /\ \A t \in DOMAIN tasks : Cardinality(Delivered({EVENT_TASK_START}, t)) = 1

\* C24: with either setting of continueWhenError, in a run with no pause the
\* callback that follows a success starts the head of the waiting list, or
\* with nothing waiting sets the status FINISH and publishes QUEUE_FINISH;
\* and a run in which no task fails leads from exec() to the status FINISH
\* with nothing waiting or in flight and every task started exactly once.
C24_SuccessesContinue ==
  /\ [](\A r \in SuccessSteps :
          IF waitList # <<>>
          THEN /\ Starts(r.published) = <<Head(waitList)>>
               /\ Head(waitList) \in Range(r.excuteList)
               /\ r.tasks[Head(waitList)].status = STATUS_PEDDING
               /\ r.waitList = Tail(waitList)
          ELSE /\ r.status = STATUS_QUEUE_FINISH
               /\ Named(r.published, EVENT_QUEUE_FINISH) # <<>>
               /\ Starts(r.published) = <<>>)
  /\ (status # STATUS_QUEUE_WAITING) ~> (AnyFailed \/ RunComplete)

\* A run of several tasks that all succeeded, with continueWhenError on, has
\* come to its end.
C24_Witness ==
  /\ options.continueWhenError
  /\ Len(tasks) >= 2
  /\ ~AnyFailed
  /\ RunComplete

\* C25: every TASK_START is delivered at a moment its task is no longer in
\* the waiting list, is in the in-flight list and has status PENDING.
C25_StartStepOrdering ==
  \A i \in 1..Len(received) :
    LET e == received[i]
    IN e.name = EVENT_TASK_START =>
         /\ e.payload \notin Range(e.waitQueue)
         /\ e.payload \in Range(e.excuteQueue)
         /\ e.taskStatus = STATUS_PEDDING

\* C26: in every state in which reset() is accepted, the in-flight list is
\* empty and no task has status PENDING.
C26_ResetExclusivity ==
  ~reset(This).rejected => excuteList = <<>> /\ Pending = {}

\* The tasks whose outcome was delivered before the i-th notification.
SettledBefore(i) ==
  {received[j].payload : j \in {k \in 1..(i-1) :
     received[k].name \in {EVENT_TASK_SUCCESS, EVENT_TASK_FAILURE}}}

\* C27: in a run left alone after exec(), with either setting of
\* continueWhenError, every QUEUE_FINISH is delivered at a moment the waiting
\* list is empty and, when finished tasks are kept, every task whose outcome
\* was delivered before it, the last one included, is in the finished list.
C27_FinishCompleteness ==
  \A i \in 1..Len(received) :
    LET e == received[i]
    IN e.name = EVENT_QUEUE_FINISH =>
         /\ e.waitQueue = <<>>
         /\ ~options.removeAfterFinish =>
              SettledBefore(i) \subseteq Range(e.finishQueue)

\* How often a task object is held by the three lists taken together.
Held(t) == Cardinality({i \in 1..Len(Tracked) : Tracked[i] = t})

\* C28: when finished tasks are kept, every task created by an accepted push
\* is held exactly once by the waiting, in-flight and finished lists taken
\* together, in every reachable state.
C28_NoTaskLost ==
  ~options.removeAfterFinish => \A t \in DOMAIN tasks : Held(t) = 1

====
